---- MODULE Spec2Model ----
(***************************************************************************)
(* Model of cvm_core.py: the multi-period search buscar_cnpjs, the         *)
(* per-archive fan-out _varrer_um_mes, the per-file task                   *)
(* _processar_arquivo with its two scanners, and the normalizers.          *)
(*                                                                         *)
(* Text is modelled by TLA+ strings, read character by character.  A       *)
(* period token (six digits, YYYYMM) is modelled by the number it          *)
(* spells: for a fixed width of six digits the order of the strings is     *)
(* the order of the numbers.                                               *)
(***************************************************************************)
EXTENDS Integers, Sequences, FiniteSets, TLC

(***************************************************************************)
(* Strings                                                                 *)
(***************************************************************************)
CharAt(s, i) == SubSeq(s, i, i)

Digits == {"0", "1", "2", "3", "4", "5", "6", "7", "8", "9"}

UpperLetters == {"A", "B", "C", "D", "E", "F", "G", "H", "I", "J", "K", "L", "M",
                 "N", "O", "P", "Q", "R", "S", "T", "U", "V", "W", "X", "Y", "Z"}

LowerString == "abcdefghijklmnopqrstuvwxyz"

UpperString == "ABCDEFGHIJKLMNOPQRSTUVWXYZ"

\* The characters str.strip() and the regular expression \s take for white space.
Whitespace == {" ", "\t", "\n", "\r", "\f"}

\* Stands for U+FEFF, the byte-order mark norm_cols deletes.
BOM == "#"

\* The characters of the model in code-point order (BOM, the highest, last).
CodeOrder == "\t\n\f\r !,-./0123456789ABCDEFGHIJKLMNOPQRSTUVWXYZ_abcdefghijklmnopqrstuvwxyz#"

RECURSIVE IndexIn(_, _, _)
IndexIn(ch, s, i) ==
    IF i > Len(s) THEN 0
    ELSE IF CharAt(s, i) = ch THEN i
    ELSE IndexIn(ch, s, i + 1)

CodeOf == [c \in {CharAt(CodeOrder, i) : i \in 1..Len(CodeOrder)} |-> IndexIn(c, CodeOrder, 1)]

Code(ch) == CodeOf[ch]

\* Python's comparison of two str values: a < b.
RECURSIVE StrLessFrom(_, _, _)
StrLessFrom(a, b, i) ==
    IF i > Len(b) THEN FALSE
    ELSE IF i > Len(a) THEN TRUE
    ELSE IF CharAt(a, i) = CharAt(b, i) THEN StrLessFrom(a, b, i + 1)
    ELSE Code(CharAt(a, i)) < Code(CharAt(b, i))

StrLess(a, b) == StrLessFrom(a, b, 1)

UpperOf == [c \in {CharAt(LowerString, i) : i \in 1..Len(LowerString)} |->
               CharAt(UpperString, IndexIn(c, LowerString, 1))]

UpperChar(ch) == IF ch \in DOMAIN UpperOf THEN UpperOf[ch] ELSE ch

RECURSIVE UpperFrom(_, _)
UpperFrom(s, i) ==
    IF i > Len(s) THEN "" ELSE UpperChar(CharAt(s, i)) \o UpperFrom(s, i + 1)

\* str.upper()
Upper(s) == UpperFrom(s, 1)

RECURSIVE KeepFrom(_, _, _)
KeepFrom(s, i, keep) ==
    IF i > Len(s) THEN ""
    ELSE (IF CharAt(s, i) \in keep THEN CharAt(s, i) ELSE "") \o KeepFrom(s, i + 1, keep)

RECURSIVE DropFrom(_, _, _)
DropFrom(s, i, drop) ==
    IF i > Len(s) THEN ""
    ELSE (IF CharAt(s, i) \in drop THEN "" ELSE CharAt(s, i)) \o DropFrom(s, i + 1, drop)

RECURSIVE FirstNonSpace(_, _)
FirstNonSpace(s, i) ==
    IF i > Len(s) THEN i
    ELSE IF CharAt(s, i) \in Whitespace THEN FirstNonSpace(s, i + 1)
    ELSE i

RECURSIVE LastNonSpace(_, _)
LastNonSpace(s, i) ==
    IF i < 1 THEN 0
    ELSE IF CharAt(s, i) \in Whitespace THEN LastNonSpace(s, i - 1)
    ELSE i

\* str.strip()
Strip(s) == SubSeq(s, FirstNonSpace(s, 1), LastNonSpace(s, Len(s)))

\* "sub in s" of two str values
Contains(sub, s) ==
    \E i \in 1..(Len(s) - Len(sub) + 1) : SubSeq(s, i, i + Len(sub) - 1) = sub

\* s.startswith(pre)
StartsWith(s, pre) == Len(pre) <= Len(s) /\ SubSeq(s, 1, Len(pre)) = pre

\* re.sub(r"\s+", " ", s): every run of white space becomes one space.
RECURSIVE CollapseFrom(_, _, _)
CollapseFrom(s, i, inRun) ==
    IF i > Len(s) THEN ""
    ELSE IF CharAt(s, i) \in Whitespace
         THEN (IF inRun THEN "" ELSE " ") \o CollapseFrom(s, i + 1, TRUE)
         ELSE CharAt(s, i) \o CollapseFrom(s, i + 1, FALSE)

\* re.sub(r"[^\w\s]", " ", s): what is neither a word character nor white space
\* becomes a space.
RECURSIVE PunctToSpaceFrom(_, _)
PunctToSpaceFrom(s, i) ==
    IF i > Len(s) THEN ""
    ELSE (IF CharAt(s, i) \in UpperLetters \cup DOMAIN UpperOf \cup Digits \cup Whitespace \cup {"_"}
          THEN CharAt(s, i) ELSE " ") \o PunctToSpaceFrom(s, i + 1)

(***************************************************************************)
(* Normalizers                                                             *)
(***************************************************************************)
norm_col(c) == DropFrom(Strip(Upper(c)), 1, {BOM, "\r", "\n"})

norm_cols(cols) == [i \in 1..Len(cols) |-> norm_col(cols[i])]

norm_isin(x) == KeepFrom(Upper(x), 1, UpperLetters \cup Digits)

norm_code(x) == KeepFrom(Upper(x), 1, UpperLetters \cup Digits)

norm_desc(x) ==
    Strip(CollapseFrom(PunctToSpaceFrom(CollapseFrom(Strip(Upper(x)), 1, FALSE), 1), 1, FALSE))

\* A normalizer that deletes the punctuation of a formatted CNPJ only.
norm_cnpj_punct(x) == DropFrom(x, 1, {".", "/", "-"})

norm_cnpj(x) == KeepFrom(x, 1, Digits)

(***************************************************************************)
(* Sequences                                                               *)
(***************************************************************************)
Range(q) == {q[i] : i \in 1..Len(q)}

\* list.index
IndexOf(q, v) == CHOOSE i \in 1..Len(q) : q[i] = v /\ \A j \in 1..(i - 1) : q[j] # v

\* [c for c in q if P]: the sub-sequence of the elements in keep.
RECURSIVE Filter(_, _)
Filter(q, keep) ==
    IF q = <<>> THEN <<>>
    ELSE (IF Head(q) \in keep THEN <<Head(q)>> ELSE <<>>) \o Filter(Tail(q), keep)

(***************************************************************************)
(* Column selection                                                        *)
(***************************************************************************)
\* Optional[str]: <<>> is None, <<v>> is the value v.
None == <<>>

Some(v) == <<v>>

\* Python's truth value of an Optional[str]: None and "" are both false.
Truthy(o) == o # None /\ o[1] # ""

\* A selection that falls back on the first column when no column names a CNPJ.
get_cnpj_col_first(cols) ==
    LET cnpj_candidates == Filter(cols, {c \in Range(cols) : Contains("CNPJ", c)})
    IN  IF cnpj_candidates # <<>> THEN Some(cnpj_candidates[1])
        ELSE IF cols # <<>> THEN Some(cols[1])
        ELSE None

get_cnpj_col(cols) ==
    IF "CNPJ_FUNDO_CLASSE" \in Range(cols) THEN Some("CNPJ_FUNDO_CLASSE")
    ELSE LET cnpj_candidates == Filter(cols, {c \in Range(cols) : Contains("CNPJ", c)})
             classe_first == Filter(cnpj_candidates,
                                    {c \in Range(cols) : Contains("CLASSE", c)})
         IN  IF cnpj_candidates = <<>> THEN None
             ELSE IF classe_first # <<>> THEN Some(classe_first[1])
             ELSE Some(cnpj_candidates[1])

get_cd_ativo_cols(cols) ==
    LET named == Filter(<<"CD_ATIVO", "CD_ATIV", "COD_ATIVO", "CODIGO_ATIVO">>, Range(cols))
    IN  named \o Filter(cols, {c \in Range(cols) :
                                 /\ Contains("ATIV", c)
                                 /\ StartsWith(c, "CD_")
                                 /\ c \notin Range(named)})

(***************************************************************************)
(* Record files                                                            *)
(*                                                                         *)
(* A record file is what its bytes decode and tokenize to, and how the     *)
(* libraries fail on it:                                                   *)
(*   name    the entry's name in the archive                               *)
(*   open    whether zf.open / f.read succeed                              *)
(*   msg     str(e) of the exception that escapes the task, if one does   *)
(*   header  the fields of the first line                                  *)
(*   rows    the fields of each later line                                 *)
(*   pdFail  0: pandas reads the whole file; n > 0: pandas raises while    *)
(*           producing the chunk that holds data row n (n = 1 also covers  *)
(*           read_csv itself raising)                                      *)
(*   fbFail  where csv.reader raises: "none", "header" (the first line     *)
(*           cannot be read) or "rows" (a later line cannot)               *)
(***************************************************************************)
\* Rows per chunk of pd.read_csv (chunksize), scaled down.
ChunkRows == 2

\* on_bad_lines="skip": a row with more fields than the header is dropped.
PandasRows(file) == Filter(file.rows, {r \in Range(file.rows) : Len(r) <= Len(file.header)})

\* chunk[col].astype(str) at one row: a missing field reads "nan".
PandasCell(row, i) == IF i <= Len(row) /\ row[i] # "" THEN row[i] ELSE "nan"

\* The normalizer a match mode compares with.
norm_by(modo, x) ==
    IF modo = "ISIN" THEN norm_isin(x)
    ELSE IF modo = "CDB_CODIGO" THEN norm_code(x)
    ELSE norm_desc(x)

\* Whether some column of idxs, normalized, equals the normalized target t.
PandasHit(row, idxs, modo, t) == \E i \in idxs : norm_by(modo, PandasCell(row, i)) = t

FallbackHit(row, idxs, modo, t) == \E i \in idxs : i <= Len(row) /\ norm_by(modo, row[i]) = t

ColIdxs(columns, names) == {i \in 1..Len(columns) : columns[i] \in names}

(***************************************************************************)
(* _scan_pandas: the result of one chunk, then of the chunks in order.     *)
(* A result is [raised, cnpjs, found]; when raised, cnpjs and found are    *)
(* the locals at the raise, which the caller never sees.                   *)
(***************************************************************************)
scan_chunk(chunk, columns, termo, modo) ==
    LET cnpj_col == get_cnpj_col(columns)
        isin_cols == {i \in 1..Len(columns) : Contains("ISIN", columns[i])}
        cd_cols == ColIdxs(columns, Range(get_cd_ativo_cols(columns)))
        ds_cols == ColIdxs(columns, {"DS_ATIVO"})
        skip == [raised |-> FALSE, cnpjs |-> {}, found |-> FALSE]
        Sub(idxs, t) == {k \in 1..Len(chunk) : PandasHit(chunk[k], idxs, modo, t)}
        Take(sub) ==
            IF sub = {} THEN skip
            ELSE LET ci == IndexOf(columns, cnpj_col[1])
                     vals == {norm_cnpj(PandasCell(chunk[k], ci)) : k \in sub}
                 IN  [raised |-> FALSE,
                      cnpjs |-> {v \in vals : v # "" /\ v # "NAN"},
                      found |-> TRUE]
    IN  IF cnpj_col = None THEN skip
        ELSE IF modo = "ISIN"
             THEN IF isin_cols = {} THEN skip ELSE Take(Sub(isin_cols, norm_isin(termo)))
        ELSE IF modo = "CDB_CODIGO"
             THEN IF cd_cols = {} THEN skip ELSE Take(Sub(cd_cols, norm_code(termo)))
        ELSE IF modo = "CDB_DESCR_EXATA"
             THEN IF ds_cols = {} THEN skip ELSE Take(Sub(ds_cols, norm_desc(termo)))
        ELSE [raised |-> TRUE, cnpjs |-> {}, found |-> FALSE]

RECURSIVE scan_chunks(_, _, _, _, _, _)
scan_chunks(rows, done, failAt, columns, termo, modo) ==
    LET n == IF Len(rows) - done < ChunkRows THEN Len(rows) - done ELSE ChunkRows
        chunk == SubSeq(rows, done + 1, done + n)
    IN  IF failAt > done /\ failAt <= done + n
        THEN [raised |-> TRUE, cnpjs |-> {}, found |-> FALSE]
        ELSE IF n = 0 THEN [raised |-> FALSE, cnpjs |-> {}, found |-> FALSE]
        ELSE LET here == scan_chunk(chunk, columns, termo, modo)
                 rest == IF here.raised THEN here
                         ELSE scan_chunks(rows, done + n, failAt, columns, termo, modo)
             IN  [raised |-> rest.raised,
                  cnpjs |-> here.cnpjs \cup rest.cnpjs,
                  found |-> here.found \/ rest.found]

scan_pandas(file, termo, modo) ==
    IF file.pdFail = 1 /\ PandasRows(file) = <<>>
    THEN [raised |-> TRUE, cnpjs |-> {}, found |-> FALSE]
    ELSE scan_chunks(PandasRows(file), 0, file.pdFail, norm_cols(file.header), termo, modo)

(***************************************************************************)
(* _scan_csv_fallback                                                      *)
(***************************************************************************)
scan_csv_fallback(file, termo, modo) ==
    LET header == norm_cols(file.header)
        cnpj_col == get_cnpj_col(header)
        cnpj_idx == IndexOf(header, cnpj_col[1])
        isin_idxs == {i \in 1..Len(header) : Contains("ISIN", header[i])}
        cd_idxs == {IndexOf(header, c) : c \in Range(get_cd_ativo_cols(header))}
        ds_idxs == IF "DS_ATIVO" \in Range(header) THEN {IndexOf(header, "DS_ATIVO")} ELSE {}
        nothing == [raised |-> FALSE, cnpjs |-> {}, found |-> FALSE]
        failed == [raised |-> TRUE, cnpjs |-> {}, found |-> FALSE]
        Loop(idxs, t) ==
            LET hits == {k \in 1..Len(file.rows) : FallbackHit(file.rows[k], idxs, modo, t)}
                cs == {norm_cnpj(file.rows[k][cnpj_idx]) :
                          k \in {h \in hits : cnpj_idx <= Len(file.rows[h])}}
            IN  IF file.fbFail = "rows" /\ file.rows # <<>> THEN failed
                ELSE [raised |-> FALSE, cnpjs |-> {c \in cs : c # ""}, found |-> hits # {}]
    IN  IF file.fbFail = "header" THEN failed
        ELSE IF cnpj_col = None THEN nothing
        ELSE IF modo = "ISIN"
             THEN IF isin_idxs = {} THEN nothing ELSE Loop(isin_idxs, norm_isin(termo))
        ELSE IF modo = "CDB_CODIGO"
             THEN IF cd_idxs = {} THEN nothing ELSE Loop(cd_idxs, norm_code(termo))
        ELSE IF modo = "CDB_DESCR_EXATA"
             THEN IF ds_idxs = {} THEN nothing ELSE Loop(ds_idxs, norm_desc(termo))
        ELSE failed

(***************************************************************************)
(* _processar_arquivo: (cnpjs, found, err), and ran, the strategies the    *)
(* task ran, in order.                                                     *)
(***************************************************************************)
\* A task that returns what the structured parse had found when it raised.
processar_arquivo_partial(file, termo, modo) ==
    IF ~file.open
    THEN [cnpjs |-> {}, found |-> FALSE, err |-> Some(file.msg), ran |-> <<>>]
    ELSE LET p == scan_pandas(file, termo, modo)
         IN  [cnpjs |-> p.cnpjs, found |-> p.found, err |-> None, ran |-> <<"pandas">>]

processar_arquivo(file, termo, modo) ==
    IF ~file.open
    THEN [cnpjs |-> {}, found |-> FALSE, err |-> Some(file.msg), ran |-> <<>>]
    ELSE LET p == scan_pandas(file, termo, modo)
             f == scan_csv_fallback(file, termo, modo)
         IN  IF ~p.raised
             THEN [cnpjs |-> p.cnpjs, found |-> p.found, err |-> None, ran |-> <<"pandas">>]
             ELSE IF ~f.raised
             THEN [cnpjs |-> f.cnpjs, found |-> f.found, err |-> None,
                   ran |-> <<"pandas", "fallback">>]
             ELSE [cnpjs |-> {}, found |-> FALSE, err |-> Some(file.msg),
                   ran |-> <<"pandas", "fallback">>]

(***************************************************************************)
(* Sorting and small arithmetic                                            *)
(***************************************************************************)
Min(a, b) == IF a < b THEN a ELSE b

Max(a, b) == IF a > b THEN a ELSE b

\* sorted(S) of a set of str
RECURSIVE SortedStr(_)
SortedStr(S) ==
    IF S = {} THEN <<>>
    ELSE LET m == CHOOSE a \in S : \A b \in S \ {a} : StrLess(a, b)
         IN  <<m>> \o SortedStr(S \ {m})

\* sorted(S, reverse=True) of a set of period tokens
RECURSIVE SortedDesc(_)
SortedDesc(S) ==
    IF S = {} THEN <<>>
    ELSE LET m == CHOOSE a \in S : \A b \in S : b <= a
         IN  <<m>> \o SortedDesc(S \ {m})

LowerOf == [c \in UpperLetters |-> CharAt(LowerString, IndexIn(c, UpperString, 1))]

LowerChar(ch) == IF ch \in DOMAIN LowerOf THEN LowerOf[ch] ELSE ch

RECURSIVE LowerFrom(_, _)
LowerFrom(s, i) ==
    IF i > Len(s) THEN "" ELSE LowerChar(CharAt(s, i)) \o LowerFrom(s, i + 1)

\* n.lower().endswith(".csv")
IsCsvName(n) == Len(n) >= 4 /\ LowerFrom(SubSeq(n, Len(n) - 3, Len(n)), 1) = ".csv"

(***************************************************************************)
(* The inputs of one call of buscar_cnpjs and the world it runs in         *)
(***************************************************************************)
\* max(1, min(int(max_workers), 6))
MaxPool == 6

\* max(1, min(int(meses), 60))
MaxMeses == 60

\* How far the requested worker count goes above MaxPool.
PoolExtra == 1

\* How far the requested period count goes above MaxMeses.
MesesExtra == 40

\* How many periods more than MaxMeses the longest directory listing holds.
ListingExtra == 1

Terms == {"", " \t", "x1 ", " X 1 ", "x\t1"}

Categories == {"CDB", " credito_privado ", "FII", ""}

WorkerInputs == {0 - 1, 0, 2, MaxPool + PoolExtra}

MesesInputs == {0, 1, 2, MaxMeses + MesesExtra}

ListingSizes == {0, 1, 3, MaxMeses + ListingExtra}

\* Months are counted from year 0; the token of month m is YYYYMM.
MonthToken(m) == (m \div 12) * 100 + (m % 12) + 1

MonthIndex(p) == (p \div 100) * 12 + (p % 100) - 1

\* The month of the most recent archive of every listing.
LastMonth == 2025 * 12 + 8

\* re.findall on the directory page of n archives: oldest first, and each
\* file name twice (the link and its text).
Html(n) == [i \in 1..(2 * n) |-> MonthToken(LastMonth - n + ((i + 1) \div 2))]

Hdr == <<"#cnpj_fundo_classe ", "CD_ISIN", "cd_ativo", "DS_ATIVO">>

HdrLast == <<"CD_ISIN", "CD_ATIVO", "DS_ATIVO", "CNPJ_FUNDO">>

HdrNoId == <<"DENOM_SOCIAL", "CD_ISIN", "CD_ATIVO", "DS_ATIVO">>

\* A row every term of the model matches in every mode, and one none matches.
Hit(cnpj) == <<cnpj, "x-1", "X.1", "x , 1">>

Miss(cnpj) == <<cnpj, "y-2", "Y.2", "y , 2">>

File(name, header, rows) ==
    [name |-> name, open |-> TRUE, msg |-> "", header |-> header, rows |-> rows,
     pdFail |-> 0, fbFail |-> "none"]

Failing(file, pdFail, fbFail, msg) ==
    [file EXCEPT !.pdFail = pdFail, !.fbFail = fbFail, !.msg = msg]

Unopenable(name, msg) == [File(name, <<>>, <<>>) EXCEPT !.open = FALSE, !.msg = msg]

\* Archives, as the sequence of their entries.
ArchiveA ==
    <<File("a.csv", Hdr, <<Hit("9"), Miss("3"), Hit("1-0")>>),
      Unopenable("b.csv", "Bad CRC-32"),
      Failing(File("F.CSV", Hdr, <<Hit("9"), Miss("4"), Hit("2/2")>>), 3, "none", ""),
      File("leiame.txt", Hdr, <<Hit("77")>>)>>

ArchiveB ==
    <<Failing(File("a.csv", Hdr, <<Hit("8"), Hit("9")>>), 1, "rows", "field larger than field limit"),
      Failing(File("n.csv", HdrNoId, <<Hit("55"), Hit("56")>>), 0, "rows", "x"),
      Unopenable("b.csv", "File is not a zip file")>>

ArchiveC ==
    <<Unopenable("b.csv", ""),
      File("c.csv", HdrLast, <<<<"x1", "x1", "x 1">>, <<"x1", "x1", "x 1", "nan">>,
                               <<"x1", "x1", "x 1", "0.1">>>>),
      Failing(File("n.csv", HdrNoId, <<Hit("55")>>), 1, "none", "")>>

ArchiveD ==
    <<Failing(File("e.csv", <<>>, <<>>), 1, "none", ""),
      File("m.csv", Hdr, <<Miss("5"), <<"4.4", "x1", "Y.2", "y 2">>,
                           <<"4.1", "y-2", "X.1", "y , 2">>, <<"4.2", "y-2", "Y.2", "x , 1">>>>)>>

ArchiveE ==
    <<Failing(File("h.csv", Hdr, <<Hit("6")>>), 1, "header", "line contains NUL"),
      File("l.csv", Hdr, <<<<"1.1", "x1", "x1", "x 1", "extra">>, Hit("007")>>)>>

\* An archive of more record files than the largest pool has workers.
ArchiveW ==
    <<File("w1.csv", Hdr, <<Miss("1")>>), File("w2.csv", Hdr, <<Miss("2")>>),
      File("w3.csv", Hdr, <<Miss("3")>>), File("w4.csv", Hdr, <<Miss("4")>>),
      File("w5.csv", Hdr, <<Miss("5")>>), File("w6.csv", Hdr, <<Miss("6")>>),
      File("w7.csv", Hdr, <<Miss("7")>>)>>

\* The archives older than the ones a world names hold no record file.
OldArchive == <<File("leiame.txt", Hdr, <<Hit("78")>>)>>

\* A world: the archives of the periods, the most recent first.
Worlds == {<<ArchiveA, ArchiveB>>, <<ArchiveC, ArchiveD, ArchiveA>>, <<OldArchive, ArchiveE, ArchiveC>>,
           <<ArchiveW>>}

ArchiveAt(w, p) ==
    LET r == LastMonth - MonthIndex(p) + 1
    IN  IF r >= 1 /\ r <= Len(w) THEN w[r] ELSE OldArchive

EntryNamed(archive, n) == archive[CHOOSE i \in 1..Len(archive) : archive[i].name = n]

\* zf.namelist()
NameList(archive) == [i \in 1..Len(archive) |-> archive[i].name]

\* A derivation that takes any white space of the term for a word gap.
derive_modo_whitespace(c, a) ==
    IF c = "CREDITO_PRIVADO" THEN "ISIN"
    ELSE IF \E i \in 1..Len(a) : CharAt(a, i) \in Whitespace THEN "CDB_DESCR_EXATA"
    ELSE "CDB_CODIGO"

\* Lines 250-253: the match mode of a valid category and a stripped term.
derive_modo(c, a) ==
    IF c = "CREDITO_PRIVADO" THEN "ISIN"
    ELSE IF Contains(" ", a) THEN "CDB_DESCR_EXATA"
    ELSE "CDB_CODIGO"

\* What _processar_arquivo returns for each entry and each search of the model,
\* computed once.
AllEntries == Range(OldArchive) \cup UNION {UNION {Range(w[i]) : i \in 1..Len(w)} : w \in Worlds}

Searches == {<<Strip(t), derive_modo(Upper(Strip(c)), Strip(t))>> : t \in Terms, c \in Categories}

ScanMemo == [e \in AllEntries, s \in Searches |-> processar_arquivo(e, s[1], s[2])]

\* fut.result() of the task submitted for an entry
fut_result(file, termo, modo) == ScanMemo[file, <<termo, modo>>]

(***************************************************************************)
(* State                                                                   *)
(***************************************************************************)
VARIABLES
    ativo_in, categoria_in, max_workers_in, meses_in,   \* the arguments of the call
    html, world,                                        \* the directory page, the archives
    pc,                \* "start", "list", "loop", "scan", "done" or "raised"
    exc,               \* the exception raised to the caller, "" if none
    ret,               \* <<>> until buscar_cnpjs returns, then <<its tables>>
    ativo, categoria, modo, max_workers, meses,         \* locals of buscar_cnpjs
    yyyymms, ultimo, idx,
    all_cnpjs, matches_rows, errors_rows, meses_com_match,
    zip_data, csv_files,                                \* locals of _varrer_um_mes
    pending, running, results, collected,               \* the pool and its futures
    m_cnpjs, m_matches, m_errors,
    netLog,            \* the requests sent, in order
    mergedLog          \* the periods whose results were merged, in order

inputs == <<ativo_in, categoria_in, max_workers_in, meses_in, html, world>>

params == <<ativo, categoria, modo, max_workers, meses>>

plan == <<yyyymms, ultimo>>

aggregate == <<all_cnpjs, matches_rows, errors_rows, meses_com_match>>

month == <<zip_data, csv_files, m_cnpjs, m_matches, m_errors>>

pool == <<pending, running, results, collected>>

vars == <<inputs, pc, exc, ret, params, plan, idx, aggregate, month, pool, netLog, mergedLog>>

Init ==
    /\ ativo_in \in Terms
    /\ categoria_in \in Categories
    /\ max_workers_in \in WorkerInputs
    /\ meses_in \in MesesInputs
    /\ html \in {Html(n) : n \in ListingSizes}
    /\ world \in Worlds
    \* the runs over MaxMeses periods are enumerated for one worker count
    /\ (meses_in > MaxMeses /\ Len(html) > 2 * MaxMeses) => max_workers_in = 2
    \* the archive of many files is scanned by one search, for the largest
    \* worker count
    /\ world = <<ArchiveW>> =>
          /\ max_workers_in = MaxPool + PoolExtra
          /\ meses_in = 1
          /\ Len(html) = 2
          /\ ativo_in = "x1 "
          /\ categoria_in = "CDB"
    /\ pc = "start"
    /\ exc = ""
    /\ ret = <<>>
    /\ ativo = ativo_in
    /\ categoria = categoria_in
    /\ modo = ""
    /\ max_workers = max_workers_in
    /\ meses = meses_in
    /\ yyyymms = <<>>
    /\ ultimo = 0
    /\ idx = 0
    /\ all_cnpjs = {}
    /\ matches_rows = <<>>
    /\ errors_rows = <<>>
    /\ meses_com_match = {}
    /\ zip_data = <<>>
    /\ csv_files = <<>>
    /\ pending = <<>>
    /\ running = {}
    /\ results = {}
    /\ collected = {}
    /\ m_cnpjs = {}
    /\ m_matches = <<>>
    /\ m_errors = <<>>
    /\ netLog = <<>>
    /\ mergedLog = <<>>

(***************************************************************************)
(* buscar_cnpjs, lines 242-256: validation, mode and clamps                *)
(***************************************************************************)
\* A validation that comes after the directory listing was requested.
ValidateLate ==
    /\ pc = "start"
    /\ LET a == Strip(ativo_in)
           c == Upper(Strip(categoria_in))
       IN  IF a = "" \/ c \notin {"CREDITO_PRIVADO", "CDB"}
           THEN /\ pc' = "raised"
                /\ exc' = "ValueError"
                /\ netLog' = Append(netLog, [req |-> "dir", p |-> 0])
                /\ UNCHANGED params
           ELSE /\ pc' = "list"
                /\ exc' = exc
                /\ ativo' = a
                /\ categoria' = c
                /\ modo' = derive_modo(c, a)
                /\ max_workers' = Max(1, Min(max_workers_in, MaxPool))
                /\ meses' = Max(1, Min(meses_in, MaxMeses))
                /\ UNCHANGED netLog
    /\ UNCHANGED <<inputs, ret, plan, idx, aggregate, month, pool, mergedLog>>

Validate ==
    /\ pc = "start"
    /\ LET a == Strip(ativo_in)
           c == Upper(Strip(categoria_in))
       IN  IF a = "" \/ c \notin {"CREDITO_PRIVADO", "CDB"}
           THEN /\ pc' = "raised"
                /\ exc' = "ValueError"
                /\ UNCHANGED params
           ELSE /\ pc' = "list"
                /\ exc' = exc
                /\ ativo' = a
                /\ categoria' = c
                /\ modo' = derive_modo(c, a)
                /\ max_workers' = Max(1, Min(max_workers_in, MaxPool))
                /\ meses' = Max(1, Min(meses_in, MaxMeses))
    /\ UNCHANGED <<inputs, ret, plan, idx, aggregate, month, pool, netLog, mergedLog>>

(***************************************************************************)
(* listar_zips_disponiveis and lines 258-266                               *)
(***************************************************************************)
listar_zips_disponiveis(page) == SortedDesc(Range(page))

Listar ==
    /\ pc = "list"
    /\ netLog' = Append(netLog, [req |-> "dir", p |-> 0])
    /\ \E ok \in BOOLEAN :
          IF ~ok
          THEN /\ pc' = "raised"
               /\ exc' = "ConnectionError"
               /\ UNCHANGED <<plan, idx>>
          ELSE IF Range(html) = {}
          THEN /\ pc' = "raised"
               /\ exc' = "RuntimeError"
               /\ UNCHANGED <<plan, idx>>
          ELSE LET zips == listar_zips_disponiveis(html)
                   sel == SubSeq(zips, 1, Min(meses, Len(zips)))
               IN  /\ yyyymms' = sel
                   /\ ultimo' = sel[Len(sel)]
                   /\ idx' = 1
                   /\ pc' = "loop"
                   /\ exc' = exc
    /\ UNCHANGED <<inputs, ret, params, aggregate, month, pool, mergedLog>>

(***************************************************************************)
(* _varrer_um_mes, lines 205-217: the download (raise_for_status raises    *)
(* HTTPError, ZipFile raises BadZipFile on what is no archive), the record *)
(* files, one task submitted for each                                      *)
(***************************************************************************)
\* A download whose failure skips the period and goes on with the next.
FetchIsolated ==
    /\ pc = "loop"
    /\ idx <= Len(yyyymms)
    /\ netLog' = Append(netLog, [req |-> "zip", p |-> yyyymms[idx]])
    /\ \E outcome \in {"ok", "HTTPError"} :
          IF outcome # "ok"
          THEN /\ exc' = outcome
               /\ idx' = idx + 1
               /\ UNCHANGED <<pc, month, pool>>
          ELSE LET data == ArchiveAt(world, yyyymms[idx])
                   names == Filter(NameList(data), {n \in Range(NameList(data)) : IsCsvName(n)})
               IN  /\ zip_data' = data
                   /\ csv_files' = names
                   /\ m_cnpjs' = {}
                   /\ m_matches' = <<>>
                   /\ m_errors' = <<>>
                   /\ pending' = names
                   /\ running' = {}
                   /\ results' = {}
                   /\ collected' = {}
                   /\ pc' = "scan"
                   /\ UNCHANGED <<exc, idx>>
    /\ UNCHANGED <<inputs, ret, params, plan, aggregate, mergedLog>>

Fetch ==
    /\ pc = "loop"
    /\ idx <= Len(yyyymms)
    /\ netLog' = Append(netLog, [req |-> "zip", p |-> yyyymms[idx]])
    /\ \E outcome \in {"ok", "HTTPError", "BadZipFile"} :
          IF outcome # "ok"
          THEN /\ pc' = "raised"
               /\ exc' = outcome
               /\ UNCHANGED <<month, pool>>
          ELSE LET data == ArchiveAt(world, yyyymms[idx])
                   names == Filter(NameList(data), {n \in Range(NameList(data)) : IsCsvName(n)})
               IN  /\ zip_data' = data
                   /\ csv_files' = names
                   /\ m_cnpjs' = {}
                   /\ m_matches' = <<>>
                   /\ m_errors' = <<>>
                   /\ pending' = names
                   /\ running' = {}
                   /\ results' = {}
                   /\ collected' = {}
                   /\ pc' = "scan"
                   /\ exc' = exc
    /\ UNCHANGED <<inputs, ret, params, plan, idx, aggregate, mergedLog>>

\* A pool that starts a thread for every task waiting, whatever its size.
WorkerStartUnbounded ==
    /\ pc = "scan"
    /\ pending # <<>>
    /\ running' = running \cup {Head(pending)}
    /\ pending' = Tail(pending)
    /\ UNCHANGED <<inputs, pc, exc, ret, params, plan, idx, aggregate, month,
                   results, collected, netLog, mergedLog>>

\* A free worker of the pool takes the oldest task waiting.
WorkerStart ==
    /\ pc = "scan"
    /\ pending # <<>>
    /\ Cardinality(running) < max_workers
    /\ running' = running \cup {Head(pending)}
    /\ pending' = Tail(pending)
    /\ UNCHANGED <<inputs, pc, exc, ret, params, plan, idx, aggregate, month,
                   results, collected, netLog, mergedLog>>

\* A task ends: its future holds what _processar_arquivo returned.
WorkerFinish ==
    /\ pc = "scan"
    /\ \E n \in running :
          /\ running' = running \ {n}
          /\ results' = results \cup
                {[name |-> n, res |-> fut_result(EntryNamed(zip_data, n), ativo, modo)]}
    /\ UNCHANGED <<inputs, pc, exc, ret, params, plan, idx, aggregate, month,
                   pending, collected, netLog, mergedLog>>

\* Lines 218-225: as_completed hands over one finished future; its result is
\* merged on the calling thread.
\* A merge that keeps the last task's IDs instead of their union.
merge_result_overwrite(m, name, r) ==
    IF Truthy(r.err)
    THEN [m EXCEPT !.errors = Append(@, <<name, r.err[1]>>)]
    ELSE IF r.found
    THEN [m EXCEPT !.matches = Append(@, name), !.cnpjs = r.cnpjs]
    ELSE m

merge_result(m, name, r) ==
    IF Truthy(r.err)
    THEN [m EXCEPT !.errors = Append(@, <<name, r.err[1]>>)]
    ELSE IF r.found
    THEN [m EXCEPT !.matches = Append(@, name), !.cnpjs = @ \cup r.cnpjs]
    ELSE m

Collect ==
    /\ pc = "scan"
    /\ \E fut \in results :
          LET m == merge_result([cnpjs |-> m_cnpjs, matches |-> m_matches, errors |-> m_errors],
                                fut.name, fut.res)
          IN  /\ results' = results \ {fut}
              /\ collected' = collected \cup {fut.name}
              /\ m_cnpjs' = m.cnpjs
              /\ m_matches' = m.matches
              /\ m_errors' = m.errors
    /\ UNCHANGED <<inputs, pc, exc, ret, params, plan, idx, aggregate,
                   zip_data, csv_files, pending, running, netLog, mergedLog>>

(***************************************************************************)
(* Lines 227 and 269-281: _varrer_um_mes returns, its three results are    *)
(* merged into the aggregate                                               *)
(***************************************************************************)

\* A merge that marks the period when it produced matches or errors.
EndMonthAnyRow ==
    /\ pc = "scan"
    /\ collected = Range(csv_files)
    /\ LET p == yyyymms[idx]
       IN  /\ meses_com_match' = IF m_matches # <<>> \/ m_errors # <<>>
                                 THEN meses_com_match \cup {p}
                                 ELSE meses_com_match
           /\ matches_rows' = matches_rows \o [i \in 1..Len(m_matches) |-> <<p, m_matches[i]>>]
           /\ errors_rows' = errors_rows \o
                 [i \in 1..Len(m_errors) |-> <<p, m_errors[i][1], m_errors[i][2]>>]
           /\ all_cnpjs' = all_cnpjs \cup m_cnpjs
           /\ mergedLog' = Append(mergedLog, p)
    /\ idx' = idx + 1
    /\ pc' = "loop"
    /\ zip_data' = <<>>
    /\ csv_files' = <<>>
    /\ m_cnpjs' = {}
    /\ m_matches' = <<>>
    /\ m_errors' = <<>>
    /\ collected' = {}
    /\ UNCHANGED <<inputs, exc, ret, params, plan, pending, running, results, netLog>>

EndMonth ==
    /\ pc = "scan"
    /\ collected = Range(csv_files)
    /\ LET p == yyyymms[idx]
       IN  /\ meses_com_match' = IF m_matches # <<>> THEN meses_com_match \cup {p}
                                 ELSE meses_com_match
           /\ matches_rows' = matches_rows \o [i \in 1..Len(m_matches) |-> <<p, m_matches[i]>>]
           /\ errors_rows' = errors_rows \o
                 [i \in 1..Len(m_errors) |-> <<p, m_errors[i][1], m_errors[i][2]>>]
           /\ all_cnpjs' = all_cnpjs \cup m_cnpjs
           /\ mergedLog' = Append(mergedLog, p)
    /\ idx' = idx + 1
    /\ pc' = "loop"
    /\ zip_data' = <<>>
    /\ csv_files' = <<>>
    /\ m_cnpjs' = {}
    /\ m_matches' = <<>>
    /\ m_errors' = <<>>
    /\ collected' = {}
    /\ UNCHANGED <<inputs, exc, ret, params, plan, pending, running, results, netLog>>

(***************************************************************************)
(* Lines 287-292: the tables                                               *)
(***************************************************************************)
\* The tables with the ID table in descending order.
TablesDescending ==
    [ultimo |-> ultimo,
     df_cnpjs |-> [i \in 1..Cardinality(all_cnpjs) |->
                     SortedStr(all_cnpjs)[Cardinality(all_cnpjs) + 1 - i]],
     df_matches |-> matches_rows,
     df_errors |-> errors_rows,
     df_meses_match |-> SortedDesc(meses_com_match)]

Tables ==
    [ultimo |-> ultimo,
     df_cnpjs |-> SortedStr({c \in all_cnpjs : c # ""}),
     df_matches |-> matches_rows,
     df_errors |-> errors_rows,
     df_meses_match |-> SortedDesc(meses_com_match)]

\* The loop with the early exit of lines 283-285 taken.
ReturnEarly ==
    /\ pc = "loop"
    /\ idx > Len(yyyymms) \/ all_cnpjs # {}
    /\ ret' = <<Tables>>
    /\ pc' = "done"
    /\ UNCHANGED <<inputs, exc, params, plan, idx, aggregate, month, pool, netLog, mergedLog>>

Return ==
    /\ pc = "loop"
    /\ idx > Len(yyyymms)
    /\ ret' = <<Tables>>
    /\ pc' = "done"
    /\ UNCHANGED <<inputs, exc, params, plan, idx, aggregate, month, pool, netLog, mergedLog>>

Next == Validate \/ Listar \/ Fetch \/ WorkerStart \/ WorkerFinish \/ Collect \/ EndMonth \/ Return

Spec == Init /\ [][Next]_vars

(***************************************************************************)
(* What a run must return, read off the inputs alone                       *)
(***************************************************************************)
PandasOf == [e \in AllEntries, s \in Searches |-> scan_pandas(e, s[1], s[2])]

FallbackOf == [e \in AllEntries, s \in Searches |-> scan_csv_fallback(e, s[1], s[2])]

\* The record files of the archive of period p, in the archive's order.
CsvEntries(p) ==
    LET a == ArchiveAt(world, p)
    IN  Filter(a, {e \in Range(a) : IsCsvName(e.name)})

\* The outcome of the scan of entry e under the search of this run.
Outcome(e) == ScanMemo[e, <<ativo, modo>>]

ScanFailed(e) == Outcome(e).err # None

Matched(e) == ~Truthy(Outcome(e).err) /\ Outcome(e).found

Selected == Range(yyyymms)

MatchedIn(p) == {e \in Range(CsvEntries(p)) : Matched(e)}

ErrorsIn(p) == {e \in Range(CsvEntries(p)) : Truthy(Outcome(e).err)}

RefMatchRows == UNION {{<<p, e.name>> : e \in MatchedIn(p)} : p \in Selected}

RefErrorRows == UNION {{<<p, e.name, e.msg>> : e \in ErrorsIn(p)} : p \in Selected}

RefIds == UNION {UNION {Outcome(e).cnpjs : e \in MatchedIn(p)} : p \in Selected}

Done == pc = "done"

T == ret[1]

StrictlyAscending(q) == \A i \in 1..(Len(q) - 1) : StrLess(q[i], q[i + 1])

NoRepeats(q) == \A i, j \in 1..Len(q) : i # j => q[i] # q[j]

(***************************************************************************)
(* C1.  Per-file failure isolation: when the search returns, every record  *)
(* file of every selected period whose scan failed, whatever the message   *)
(* of the exception, has its row (period, filename, message) in the error  *)
(* table, and every other file is merged as if nothing had failed: each    *)
(* file that matched has its row in the match table and its IDs in the ID  *)
(* table.                                                                  *)
(***************************************************************************)
C1_FailureIsolation ==
    Done =>
        /\ \A p \in Selected : \A e \in Range(CsvEntries(p)) :
              ScanFailed(e) => <<p, e.name, e.msg>> \in Range(T.df_errors)
        /\ \A p \in Selected : \A e \in Range(CsvEntries(p)) :
              (~ScanFailed(e) /\ Outcome(e).found) =>
                  /\ <<p, e.name>> \in Range(T.df_matches)
                  /\ Outcome(e).cnpjs \subseteq Range(T.df_cnpjs)

(***************************************************************************)
(* C2.  Parallelism does not change the result set: when the search        *)
(* returns, the ID table, the set of match rows and the set of error rows  *)
(* are the ones the archives, the term and the category determine,         *)
(* whatever the size of the pool and whatever the order in which the       *)
(* tasks completed and were collected.                                     *)
(***************************************************************************)
C2_ParallelismSameResult ==
    Done =>
        /\ Range(T.df_cnpjs) = RefIds
        /\ NoRepeats(T.df_cnpjs)
        /\ Range(T.df_matches) = RefMatchRows
        /\ Len(T.df_matches) = Cardinality(RefMatchRows)
        /\ Range(T.df_errors) = RefErrorRows
        /\ Len(T.df_errors) = Cardinality(RefErrorRows)

\* A run of the largest pool whose tasks were collected in another order than
\* they were submitted: F.CSV before a.csv.
C2_Witness ==
    /\ Done
    /\ max_workers = MaxPool
    /\ \E i, j \in 1..Len(T.df_matches) :
          /\ i < j
          /\ T.df_matches[i][1] = T.df_matches[j][1]
          /\ T.df_matches[i][2] = "F.CSV"
          /\ T.df_matches[j][2] = "a.csv"
    /\ T.df_errors # <<>>

(***************************************************************************)
(* C3.  The claim as stated: the filename lists are sorted before they     *)
(* are returned, so the match table and the error table are the same row   *)
(* sequence in every run: the rows in descending period order and, within  *)
(* a period, in ascending filename order.                                  *)
(***************************************************************************)
RowLess(a, b) == a[1] > b[1] \/ (a[1] = b[1] /\ StrLess(a[2], b[2]))

RowsSorted(q) == \A i \in 1..(Len(q) - 1) : RowLess(q[i], q[i + 1])

PeriodsDescending(q) == \A i \in 1..(Len(q) - 1) : q[i][1] >= q[i + 1][1]

AllDigits(c) == \A i \in 1..Len(c) : CharAt(c, i) \in Digits

C4_IdTableSortedDigits ==
    Done =>
        /\ StrictlyAscending(T.df_cnpjs)
        /\ \A i \in 1..Len(T.df_cnpjs) : T.df_cnpjs[i] # "" /\ AllDigits(T.df_cnpjs[i])

\* IDs from several files and periods, written with punctuation in the files,
\* whose string order is not their numeric order: "10" before "9".
C4_Witness ==
    /\ Done
    /\ Len(mergedLog) >= 2
    /\ \E i \in 1..(Len(T.df_cnpjs) - 1) : T.df_cnpjs[i] = "10" /\ T.df_cnpjs[i + 1] = "22"
    /\ "9" \in Range(T.df_cnpjs)
    /\ "01" \in Range(T.df_cnpjs)

(***************************************************************************)
(* Requests                                                                *)
(***************************************************************************)
\* The periods whose archive was requested, in the order of the requests.
RECURSIVE ZipRequests(_)
ZipRequests(log) ==
    IF log = <<>> THEN <<>>
    ELSE (IF Head(log).req = "zip" THEN <<Head(log).p>> ELSE <<>>) \o ZipRequests(Tail(log))

IsPrefix(a, b) == Len(a) <= Len(b) /\ SubSeq(b, 1, Len(a)) = a

NoScanState ==
    /\ zip_data = <<>> /\ csv_files = <<>>
    /\ pending = <<>> /\ running = {} /\ results = {} /\ collected = {}

(***************************************************************************)
(* C5.  A failed download is a hard failure of the whole run: once the     *)
(* download of a selected period's archive has failed, the search has      *)
(* raised to its caller and has returned no table, whatever the more       *)
(* recent periods had produced, and the failed request is the last one:    *)
(* no later period is fetched.                                             *)
(***************************************************************************)
C5_FetchFailureIsFatal ==
    exc = "HTTPError" =>
        /\ pc = "raised"
        /\ ret = <<>>
        /\ ZipRequests(netLog) = SubSeq(yyyymms, 1, Len(mergedLog) + 1)
        /\ mergedLog = SubSeq(yyyymms, 1, idx - 1)

\* The download of a later period fails after a more recent period was scanned
\* and had produced matches, with periods still to come.
C5_Witness ==
    /\ exc = "HTTPError"
    /\ matches_rows # <<>>
    /\ all_cnpjs # {}
    /\ idx >= 2
    /\ idx < Len(yyyymms)

(***************************************************************************)
(* C6.  A record file that can be opened and whose normalized header has   *)
(* no column containing CNPJ is skipped in silence, whatever the match     *)
(* mode and whichever strategy ends up reading it: its task returns no     *)
(* ID, no match and no error, it has no row in the match table nor in the  *)
(* error table, the IDs of the ID table and the match periods all come     *)
(* from other files.                                                       *)
(***************************************************************************)
HeaderRead(e) == e.open /\ e.fbFail # "header"

NoCnpjHeader(e) ==
    /\ HeaderRead(e)
    /\ \A c \in Range(norm_cols(e.header)) : ~Contains("CNPJ", c)

\* Some row of e has a field that equals the target under one of the normalizers.
LiteralMatch(e) ==
    \E k \in 1..Len(e.rows) : \E i \in 1..Len(e.rows[k]) :
        \/ norm_isin(e.rows[k][i]) = norm_isin(ativo)
        \/ norm_desc(e.rows[k][i]) = norm_desc(ativo)

C6_NoCnpjColumnSkipped ==
    /\ pc = "scan" =>
          \A fut \in results :
              NoCnpjHeader(EntryNamed(zip_data, fut.name)) =>
                  fut.res.cnpjs = {} /\ ~fut.res.found /\ fut.res.err = None
    /\ pc = "scan" =>
          \A n \in collected :
              NoCnpjHeader(EntryNamed(zip_data, n)) =>
                  /\ n \notin Range(m_matches)
                  /\ \A i \in 1..Len(m_errors) : m_errors[i][1] # n
    /\ Done =>
          /\ \A p \in Selected : \A e \in Range(CsvEntries(p)) :
                NoCnpjHeader(e) =>
                    /\ <<p, e.name>> \notin Range(T.df_matches)
                    /\ \A i \in 1..Len(T.df_errors) :
                          <<T.df_errors[i][1], T.df_errors[i][2]>> # <<p, e.name>>
          /\ \A c \in Range(T.df_cnpjs) :
                \E p \in Selected : \E e \in Range(CsvEntries(p)) :
                    ~NoCnpjHeader(e) /\ c \in Outcome(e).cnpjs
          /\ \A p \in Range(T.df_meses_match) :
                \E e \in Range(CsvEntries(p)) : ~NoCnpjHeader(e) /\ Outcome(e).found

\* The task of a file without a CNPJ column, with rows that match the target,
\* has ended after the structured parse raised and the fallback read the file.
C6_Witness ==
    /\ pc = "scan"
    /\ \E fut \in results :
          /\ NoCnpjHeader(EntryNamed(zip_data, fut.name))
          /\ LiteralMatch(EntryNamed(zip_data, fut.name))
          /\ fut.res.ran = <<"pandas", "fallback">>
    /\ m_matches # <<>>

(***************************************************************************)
(* C7.  Parse fallback: the manual fallback runs only when the structured  *)
(* parse raised; and when the structured parse of a file raises, also      *)
(* after whole chunks were processed, and the fallback then completes      *)
(* with a matching row, the task returns the fallback's ID set and no      *)
(* error, and the file ends up in the match table, its IDs in the ID       *)
(* table, and never in the error table.                                    *)
(***************************************************************************)
Search == <<ativo, modo>>

FellBack(e) ==
    /\ e.open
    /\ PandasOf[e, Search].raised
    /\ ~FallbackOf[e, Search].raised
    /\ FallbackOf[e, Search].found

C7_FallbackResult ==
    /\ pc = "scan" =>
          \A fut \in results :
              LET e == EntryNamed(zip_data, fut.name)
              IN  /\ "fallback" \in Range(fut.res.ran) => PandasOf[e, Search].raised
                  /\ FellBack(e) =>
                        /\ fut.res.err = None
                        /\ fut.res.found
                        /\ fut.res.cnpjs = FallbackOf[e, Search].cnpjs
    /\ Done =>
          \A p \in Selected : \A e \in Range(CsvEntries(p)) :
              FellBack(e) =>
                  /\ <<p, e.name>> \in Range(T.df_matches)
                  /\ FallbackOf[e, Search].cnpjs \subseteq Range(T.df_cnpjs)
                  /\ \A i \in 1..Len(T.df_errors) :
                        <<T.df_errors[i][1], T.df_errors[i][2]>> # <<p, e.name>>

\* The search returned after a file whose structured parse raised on its second
\* chunk, with an ID found in the first, was read by the fallback, which found
\* one more ID.
C7_Witness ==
    /\ Done
    /\ \E p \in Selected : \E e \in Range(CsvEntries(p)) :
          /\ FellBack(e)
          /\ PandasOf[e, Search].cnpjs # {}
          /\ PandasOf[e, Search].cnpjs # FallbackOf[e, Search].cnpjs
          /\ <<p, e.name>> \in Range(T.df_matches)

(***************************************************************************)
(* C8.  When the search returns, the match-periods table holds exactly     *)
(* the selected periods in which at least one file matched, each once,     *)
(* in descending order; a selected period without a matching file, also    *)
(* one that produced only file errors, is absent, and every period of a    *)
(* row of the match table is present.                                      *)
(***************************************************************************)
C8_MatchPeriods ==
    Done =>
        /\ \A i \in 1..(Len(T.df_meses_match) - 1) :
              T.df_meses_match[i] > T.df_meses_match[i + 1]
        /\ Range(T.df_meses_match) = {p \in Selected : MatchedIn(p) # {}}
        /\ \A i \in 1..Len(T.df_matches) : T.df_matches[i][1] \in Range(T.df_meses_match)

\* Two periods were scanned: one with matches, which is in the table, and one
\* that produced file errors and no match, which is not.
C8_Witness ==
    /\ Done
    /\ T.df_meses_match # <<>>
    /\ \E p \in Selected :
          /\ p \notin Range(T.df_meses_match)
          /\ \E i \in 1..Len(T.df_errors) : T.df_errors[i][1] = p

(***************************************************************************)
(* C9.  The archives are fetched one at a time, the most recent first,     *)
(* each after the results of the one before were merged; and when no       *)
(* fetch fails the search fetches and scans exactly the k most recent      *)
(* periods of the listing, each once, with                                 *)
(* k = min(periods available, max(1, min(period_count, 60))), also when    *)
(* the first of them has already produced matches.                         *)
(***************************************************************************)
Available == Range(html)

ClampedCount == Min(Cardinality(Available), Max(1, Min(meses_in, MaxMeses)))

\* p is among the k most recent available periods.
AmongMostRecent(p, k) == p \in Available /\ Cardinality({q \in Available : q > p}) < k

C9_PeriodsScanned ==
    LET z == ZipRequests(netLog)
    IN  /\ \A i \in 1..(Len(z) - 1) : z[i] > z[i + 1]
        /\ \A i \in 1..Len(z) : Cardinality({q \in Available : q > z[i]}) = i - 1
        /\ IsPrefix(mergedLog, z)
        /\ Len(z) - Len(mergedLog) = (IF pc = "scan" \/ exc \in {"HTTPError", "BadZipFile"} THEN 1 ELSE 0)
        /\ Done =>
              /\ Len(z) = ClampedCount
              /\ Range(z) = {p \in Available : AmongMostRecent(p, ClampedCount)}
              /\ mergedLog = z
              /\ T.ultimo = z[Len(z)]

\* A request for 100 periods on a listing of more than 60 was cut to 60, and
\* the search went on after its first period had produced matches.
C9_Witness ==
    /\ Done
    /\ meses_in > MaxMeses
    /\ Cardinality(Available) > MaxMeses
    /\ Len(mergedLog) = MaxMeses
    /\ \E i \in 1..Len(T.df_matches) : T.df_matches[i][1] = mergedLog[1]

(***************************************************************************)
(* C10.  Validation precedes all network activity: when the term is empty  *)
(* or white space only, or the category is not one of the two recognized   *)
(* values, the search raises ValueError, and it has then sent no request   *)
(* (neither for the directory listing nor for an archive) and started no   *)
(* file scan.                                                              *)
(***************************************************************************)
EmptyTerm == \A i \in 1..Len(ativo_in) : CharAt(ativo_in, i) \in Whitespace

RecognizedCategory == Upper(Strip(categoria_in)) \in {"CREDITO_PRIVADO", "CDB"}

C10_ValidationFirst ==
    /\ (pc # "start" /\ (EmptyTerm \/ ~RecognizedCategory)) =>
          pc = "raised" /\ exc = "ValueError"
    /\ exc = "ValueError" =>
          /\ netLog = <<>>
          /\ NoScanState
          /\ ret = <<>>
          /\ mergedLog = <<>>

\* The search raised on a term of white space only with a valid category.
C10_Witness ==
    /\ pc = "raised"
    /\ exc = "ValueError"
    /\ ativo_in # ""
    /\ EmptyTerm
    /\ RecognizedCategory

(***************************************************************************)
(* C11.  The claim as stated: once the arguments are validated the mode    *)
(* is ISIN for the category of credit instruments; for certificates of     *)
(* deposit it is the exact-description mode when the trimmed term holds    *)
(* any white-space character and the code mode when it holds none; and     *)
(* every scan task of every period returns what the scan of its file       *)
(* under that mode returns.                                                *)
(***************************************************************************)
Modes == {"ISIN", "CDB_CODIGO", "CDB_DESCR_EXATA"}

Trimmed == Strip(ativo_in)

HasWhitespace(a) == \E i \in 1..Len(a) : CharAt(a, i) \in Whitespace

HasSpace(a) == \E i \in 1..Len(a) : CharAt(a, i) = " "

\* The mode of the arguments of the call, gap telling whether the trimmed
\* term counts as a description.
ModeOf(gap) ==
    IF Upper(Strip(categoria_in)) = "CREDITO_PRIVADO" THEN "ISIN"
    ELSE IF gap THEN "CDB_DESCR_EXATA"
    ELSE "CDB_CODIGO"

\* The scan of every entry for every trimmed term under every mode.
ScanUnder ==
    [e \in AllEntries, t \in {Strip(x) : x \in Terms}, m \in Modes |-> processar_arquivo(e, t, m)]

Validated == pc # "start" /\ exc # "ValueError"

\* The mode in use is m, and every task that has ended scanned under m.
ModeInUse(m) ==
    /\ modo = m
    /\ \A fut \in results :
          fut.res = ScanUnder[EntryNamed(zip_data, fut.name), Trimmed, m]

C11_ModeDerivation == Validated => ModeInUse(ModeOf(HasWhitespace(Trimmed)))

(***************************************************************************)
(* C11, amended.  The test is for the space character alone: for           *)
(* certificates of deposit the mode is the exact-description mode when     *)
(* the trimmed term holds a space and the code mode when it holds none,    *)
(* also when it holds a tab or other white space between its words.  The   *)
(* rest stands: ISIN for credit instruments, one mode from validation to   *)
(* the end of the run, under which every file of every period is scanned.  *)
(***************************************************************************)
C11_ModeBySpace == Validated => ModeInUse(ModeOf(HasSpace(Trimmed)))

\* A search for certificates whose term holds a tab and no space has scanned
\* two periods in the code mode: m.csv gave the ID of its row with the code,
\* not the one of its row with the description.
C11_Witness ==
    /\ Done
    /\ Upper(Strip(categoria_in)) = "CDB"
    /\ HasWhitespace(Trimmed) /\ ~HasSpace(Trimmed)
    /\ modo = "CDB_CODIGO"
    /\ Len(mergedLog) >= 2
    /\ "41" \in Range(T.df_cnpjs)
    /\ "42" \notin Range(T.df_cnpjs)

(***************************************************************************)
(* C12.  Bounded fan-out: for every worker count of the call, also 0, a    *)
(* negative one and one above 6, the pool has max(1, min(worker_count, 6)) *)
(* workers from validation to the end of the run; in every archive one     *)
(* scan task is submitted for each record file and for nothing else, a     *)
(* task being at any time in exactly one of four places (waiting,          *)
(* running, ended, collected); and never are more scans running than the   *)
(* pool has workers.                                                       *)
(***************************************************************************)
PoolSize ==
    IF max_workers_in < 1 THEN 1
    ELSE IF max_workers_in > 6 THEN 6
    ELSE max_workers_in

Ended == {fut.name : fut \in results}

\* The names of the tasks in the four places, with their repetitions.
TaskCount(n) ==
    Cardinality({i \in 1..Len(pending) : pending[i] = n})
        + (IF n \in running THEN 1 ELSE 0)
        + Cardinality({fut \in results : fut.name = n})
        + (IF n \in collected THEN 1 ELSE 0)

Submitted == Range(pending) \cup running \cup Ended \cup collected

C12_BoundedFanOut ==
    /\ Validated => max_workers = PoolSize
    /\ Cardinality(running) <= PoolSize
    /\ pc = "scan" =>
          /\ csv_files = [i \in 1..Len(CsvEntries(yyyymms[idx])) |-> CsvEntries(yyyymms[idx])[i].name]
          /\ Submitted = Range(csv_files)
          /\ \A n \in Submitted : TaskCount(n) = 1
    /\ pc # "scan" => Submitted = {}

\* A call with a worker count above 6 scans an archive of seven record files:
\* six scans are running and the seventh waits.
C12_Witness ==
    /\ pc = "scan"
    /\ max_workers_in > 6
    /\ Cardinality(running) = 6
    /\ Len(pending) = 1
    /\ Len(csv_files) = 7

====
